---- MODULE Spec2Model ----
(***************************************************************************)
(* Visual-Warnings-Beta: the alert ingestion, deduplication and artifact   *)
(* pipeline of automation.py / rss_service.py / warning_service.py /       *)
(* map_service.py, driven by the scheduler loop of automation.main.        *)
(*                                                                         *)
(* Time is counted in hours.  One process runs at a time; its position is  *)
(* pc.  The durable store (data/processed_alerts.json) and the output      *)
(* directory survive a stop or a crash, the rest of the state does not.    *)
(***************************************************************************)
EXTENDS Integers, Sequences, FiniteSets, TLC

(* ------------------------------ bounds --------------------------------- *)
\* the clock stops advancing here
MaxTime == 36

(* ------------------------- program constants --------------------------- *)
\* timedelta(hours=24) of _load_processed_alerts
TTL_HOURS == 24
\* max_consecutive_errors of main
max_consecutive_errors == 5
\* --max-age, taken as 24 hours in this configuration
max_age_hours == 24
\* the clock advances in half retention periods
ClockStep == TTL_HOURS \div 2

NoId == "none"
AlertIds == {"a1", "a2"}

(* --------------------------- upstream data ----------------------------- *)
\* A feature of the alert source: properties.id, properties.event, the
\* geometry (type and first coordinate ring, [lon, lat]) and the flat
\* properties.polygon string as its space-separated tokens, each token the
\* numbers it splits into at ',' (a token that is not two numbers is
\* malformed).
Ring1 == << <<-880, 350>>, <<-870, 350>>, <<-870, 360>> >>
Flat2 == << <<350, -880>>, <<351, -881>>, <<352, -882>> >>

Feature(id, ev, gt, ring, flat) ==
    [id |-> id, event |-> ev, geometry_type |-> gt, coordinates |-> ring, polygon_str |-> flat]

F1 == Feature("a1", "Tornado Warning", "Polygon", Ring1, <<>>)
F2 == Feature("a2", "Flood Warning", "none", <<>>, Flat2)
\* no geometry and no polygon string: the alert has no 'polygon' key
F2n == Feature("a2", "Flood Warning", "none", <<>>, <<>>)
\* a polygon string with only malformed tokens: 'polygon' is the empty list
F2e == Feature("a2", "Flood Warning", "none", <<>>, << <<350>> >>)
\* a feature without an id
F0 == Feature(NoId, "Flood Warning", "none", <<>>, Flat2)

\* the feeds the alert source serves, one at a time
Feeds == { <<F1, F2>>, <<F2e, F1>>, <<F2n, F1>>, <<F0, F1, F1>> }

(* ------------------------------- state --------------------------------- *)
VARIABLES
    pc,                 \* position of the process
    caller,             \* who runs the cycle: "initial" (line 236) or "job"
    now,                \* wall clock, hours
    feedKind,           \* "json" when the feed URL is an api.weather.gov/alerts URL, else "xml"
    feed,               \* what the alert source serves during the run
    disk,               \* data/processed_alerts.json: [state, data]
    processed_alerts,   \* RSSService.processed_alerts
    entries,            \* the warnings / feed entries of the current poll
    idx,                \* position of the poll loop in entries
    alert_data,         \* get_warning_by_id result of the last XML entry
    new_alerts,         \* the poll's result
    ridx,               \* position of the render loop in new_alerts
    image_path,         \* create_warning_map result of the last alert
    outputDir,          \* files of the output directory: [id, ext, mtime]
    consecutive_errors, \* main's counter
    jobs,               \* the schedule library's job list
    \* history
    durable,            \* records of the last completed write of the store file
    attempts,           \* alert IDs handed to create_warning_map in this cycle, in order
    cycle_exc,          \* an exception was raised and caught inside this cycle
    knownAtCrash,       \* processed_alerts of a poll that crashed between mark and persist
    lostMarks,          \* the IDs that poll had marked and not persisted
    recovering,         \* the poll after such a crash has not reached its persist yet
    streak,             \* failed loop iterations in a row since the last success or reset
    justReset,          \* the last step of the loop was a scheduler reset
    \* one call of a function of the pipeline, on its own
    event_type,         \* argument of MapService._get_warning_color
    color,              \* its result
    feature,            \* the feature handed to WarningService._extract_warnings
    warning,            \* the warning it gives, and the warning handed to MapService
    bounds,             \* the bounds create_warning_map fits the map to
    affected_areas,     \* result of MapService._extract_affected_areas
    hazards             \* result of MapService._extract_hazards_from_description
vars == <<pc, caller, now, feedKind, feed, disk, processed_alerts, entries, idx,
          alert_data, new_alerts, ridx, image_path, outputDir, consecutive_errors,
          jobs, durable, attempts, cycle_exc, knownAtCrash, lostMarks,
          recovering, streak, justReset, event_type, color, feature, warning,
          bounds, affected_areas, hazards>>

\* groups of variables, for the UNCHANGED clauses
envVars == <<now, feedKind, feed>>
pollVars == <<processed_alerts, entries, idx, alert_data, new_alerts>>
renderVars == <<ridx, image_path, attempts>>
schedVars == <<consecutive_errors, jobs, streak, justReset>>
crashVars == <<knownAtCrash, lostMarks, recovering>>
callVars == <<event_type, color, feature, warning, bounds, affected_areas, hazards>>

(* ------------------------------ helpers -------------------------------- *)
Min(a, b) == IF a < b THEN a ELSE b

Ids(store) == {r.id : r \in store}

\* the membership test answering "not seen" for every ID
Seen_Never(id, store) == FALSE

\* the membership test answering "seen" for every ID
Seen_Always(id, store) == TRUE

\* 'alert_id in self.processed_alerts'
Seen(id, store) == id \in Ids(store)

\* self.processed_alerts[alert_id] = {...}: a dict assignment
Put(store, id, t, ev) ==
    {r \in store : r.id # id} \cup {[id |-> id, processed_at |-> t, event |-> ev]}

\* datetime.fromisoformat succeeds on the stored processed_at
Parsable(p) == p >= 0

\* the retention test dropping a record whose processed_at does not parse
Fresh_DropUnparsable(info, t) ==
    IF Parsable(info.processed_at) THEN t - info.processed_at < TTL_HOURS ELSE FALSE

\* the retention test with half the horizon
Fresh_Half(info, t) ==
    IF Parsable(info.processed_at) THEN t - info.processed_at < ClockStep ELSE TRUE

\* the retention test of _load_processed_alerts
Fresh(info, t) ==
    IF Parsable(info.processed_at) THEN t - info.processed_at < TTL_HOURS ELSE TRUE

\* _load_processed_alerts: no file, or a file json.load rejects, gives {}
LoadProcessedAlerts(d, t) ==
    IF d.state = "valid" THEN {info \in d.data : Fresh(info, t)} ELSE {}

\* a write that leaves an empty map in the file
Dumped_Empty(store) == [state |-> "valid", data |-> {}]

\* what the file holds once json.dump has completed
Dumped(store) == [state |-> "valid", data |-> store]

\* open(file, 'w') has truncated the file, json.dump has not completed
Truncated == [state |-> "torn", data |-> {}]

\* polygon points of a flat "lat,lon lat,lon" string, malformed tokens dropped
RECURSIVE ParsePolygonStr(_)
ParsePolygonStr(toks) ==
    IF toks = <<>> THEN <<>>
    ELSE LET tok == Head(toks)
             rest == ParsePolygonStr(Tail(toks))
         IN IF Len(tok) = 2 THEN << <<tok[2], tok[1]>> >> \o rest ELSE rest

\* WarningService._extract_warnings for one feature
ExtractWarning(f) ==
    IF f.geometry_type = "Polygon"
    THEN [id |-> f.id, event |-> f.event, has_polygon |-> TRUE, polygon |-> f.coordinates]
    ELSE IF f.polygon_str # <<>>
    THEN [id |-> f.id, event |-> f.event, has_polygon |-> TRUE,
          polygon |-> ParsePolygonStr(f.polygon_str)]
    ELSE [id |-> f.id, event |-> f.event, has_polygon |-> FALSE, polygon |-> <<>>]

ExtractWarnings(fs) == [i \in 1..Len(fs) |-> ExtractWarning(fs[i])]

\* the polygon test looking at the key only
HasPolygonData_KeyOnly(alert) == alert.has_polygon

\* "'polygon' in alert and alert['polygon']"
HasPolygonData(alert) == alert.has_polygon /\ alert.polygon # <<>>

\* the resolution test accepting every result
Resolved_Always(ad) == TRUE

\* 'if alert_data: if 'features' in alert_data and alert_data['features']'
Resolved(ad) == ad = "ok"

\* the by-ID detail endpoint serves the feature the source holds for the ID
Detail(id) ==
    LET I == {i \in 1..Len(feed) : feed[i].id = id}
    IN feed[CHOOSE i \in I : \A j \in I : i <= j]

NoDisk == [state |-> "absent", data |-> {}]

\* the User-Agent the code gives to its requests (contact address left out)
UserAgent == "VisualWarningsBeta/1.0"

\* the headers argument of the requests.get of each kind of request; the feed
\* request of _process_rss_feed passes none
RequestHeaders(kind) ==
    IF kind = "xml" THEN {}
    ELSE {<<"Accept", "application/geo+json">>, <<"User-Agent", UserAgent>>}

\* no warning extracted yet
NoWarning == [id |-> NoId, event |-> "", has_polygon |-> FALSE, polygon |-> <<>>]

\* the two schedule registrations of main
Registered == <<"poll", "cleanup">>

Running == {"start", "load", "fetch", "entries", "save_open", "save_dump",
            "render", "cycle_end", "loop", "sleep"}

(* ------------------------------- Init ---------------------------------- *)
Init ==
    /\ pc = "start"
    /\ caller = "initial"
    /\ now = 0
    /\ feedKind \in {"json", "xml"}
    /\ feed \in Feeds
    /\ disk = NoDisk
    /\ processed_alerts = {}
    /\ entries = <<>>
    /\ idx = 1
    /\ alert_data = "unset"
    /\ new_alerts = <<>>
    /\ ridx = 1
    /\ image_path = "unset"
    /\ outputDir = {}
    /\ consecutive_errors = 0
    /\ jobs = <<>>
    /\ durable = {}
    /\ attempts = <<>>
    /\ cycle_exc = FALSE
    /\ knownAtCrash = {}
    /\ lostMarks = {}
    /\ recovering = FALSE
    /\ streak = 0
    /\ justReset = FALSE
    /\ event_type = ""
    /\ color = ""
    /\ feature = F0
    /\ warning = NoWarning
    /\ bounds = <<>>
    /\ affected_areas = ""
    /\ hazards = ""

(* ------------------------- one cycle: the poll ------------------------- *)
\* the entries of an Atom document: only the derived ID is used
XmlEntries(fs) == [i \in 1..Len(fs) |-> [id |-> fs[i].id]]

\* the loop over the entries ending at the first entry
AfterEntry_Stop(i) == "save_open"

\* where the poll goes once entry i is done
AfterEntry(i) == IF i >= Len(entries) THEN "save_open" ELSE "entries"

\* main: register the two jobs, then run the initial check
Start ==
    /\ pc = "start"
    /\ jobs' = Registered
    /\ caller' = "initial"
    /\ pc' = "load"
    /\ UNCHANGED <<callVars, envVars, pollVars, renderVars, crashVars, disk, outputDir, durable,
                   cycle_exc, consecutive_errors, streak, justReset>>

\* check_and_generate_warnings: RSSService(...) loads the store
Load ==
    /\ pc = "load"
    /\ processed_alerts' = LoadProcessedAlerts(disk, now)
    /\ pc' = "fetch"
    /\ UNCHANGED <<callVars, caller, envVars, entries, idx, alert_data, new_alerts, renderVars,
                   schedVars, crashVars, disk, outputDir, durable, cycle_exc>>

\* get_new_alerts: the feed request succeeds
FetchOk ==
    /\ pc = "fetch"
    /\ entries' = IF feedKind = "json" THEN ExtractWarnings(feed) ELSE XmlEntries(feed)
    /\ pc' = IF feed = <<>> THEN "save_open" ELSE "entries"
    /\ UNCHANGED <<callVars, caller, envVars, processed_alerts, idx, alert_data, new_alerts,
                   renderVars, schedVars, crashVars, disk, outputDir, durable,
                   cycle_exc>>

\* the handler of a failed feed request dropping the loaded store
FetchFail_Clears ==
    /\ pc = "fetch"
    /\ cycle_exc' = TRUE
    /\ processed_alerts' = {}
    /\ pc' = "save_open"
    /\ UNCHANGED <<callVars, caller, envVars, entries, idx, alert_data, new_alerts,
                   renderVars, schedVars, crashVars, disk, outputDir, durable>>

\* get_new_alerts: the feed request raises (transport error, raise_for_status,
\* unparsable body); the exception is caught and the poll goes on to the save
FetchFail ==
    /\ pc = "fetch"
    /\ cycle_exc' = TRUE
    /\ pc' = "save_open"
    /\ UNCHANGED <<callVars, caller, envVars, pollVars, renderVars, schedVars, crashVars, disk,
                   outputDir, durable>>

\* _process_json_api: one iteration of the loop over the warnings
JsonEntry ==
    /\ pc = "entries"
    /\ feedKind = "json"
    /\ LET w == entries[idx]
       IN IF w.id # NoId /\ ~Seen(w.id, processed_alerts)
          THEN /\ new_alerts' = Append(new_alerts, w)
               /\ processed_alerts' = Put(processed_alerts, w.id, now, w.event)
          ELSE UNCHANGED <<new_alerts, processed_alerts>>
    /\ idx' = idx + 1
    /\ pc' = AfterEntry(idx)
    /\ UNCHANGED <<callVars, caller, envVars, entries, alert_data, renderVars, schedVars,
                   crashVars, disk, outputDir, durable, cycle_exc>>

\* _process_rss_feed: one iteration of the loop over the entries; ad is what
\* get_warning_by_id gives: the alert ("ok"), None ("none"), a body without
\* features ("nofeatures"), or an exception other than RequestException ("raised")
XmlEntry ==
    /\ pc = "entries"
    /\ feedKind = "xml"
    /\ LET id == entries[idx].id
       IN IF id = NoId \/ Seen(id, processed_alerts)
          THEN /\ alert_data' = "unset"
               /\ UNCHANGED <<new_alerts, processed_alerts, cycle_exc>>
          ELSE \E ad \in {"ok", "none", "nofeatures", "raised"} :
                 /\ alert_data' = ad
                 /\ cycle_exc' = (cycle_exc \/ ad \in {"none", "raised"})
                 /\ IF Resolved(ad)
                    THEN LET w == ExtractWarning(Detail(id))
                         IN /\ new_alerts' = Append(new_alerts, w)
                            /\ processed_alerts' = Put(processed_alerts, id, now, w.event)
                    ELSE UNCHANGED <<new_alerts, processed_alerts>>
    /\ idx' = idx + 1
    /\ pc' = AfterEntry(idx)
    /\ UNCHANGED <<callVars, caller, envVars, entries, renderVars, schedVars, crashVars, disk,
                   outputDir, durable>>

\* _save_processed_alerts: open(file, 'w') truncates the file
SaveOpen ==
    /\ pc = "save_open"
    /\ disk' = Truncated
    /\ knownAtCrash' = {}
    /\ lostMarks' = {}
    /\ recovering' = FALSE
    /\ pc' = "save_dump"
    /\ UNCHANGED <<callVars, caller, envVars, pollVars, renderVars, schedVars, outputDir,
                   durable, cycle_exc>>

\* _save_processed_alerts: json.dump writes the whole map and the file is closed
SaveDump ==
    /\ pc = "save_dump"
    /\ disk' = Dumped(processed_alerts)
    /\ durable' = processed_alerts
    /\ pc' = IF new_alerts = <<>> THEN "cycle_end" ELSE "render"
    /\ UNCHANGED <<callVars, caller, envVars, pollVars, renderVars, schedVars, crashVars,
                   outputDir, cycle_exc>>

(* ------------------- one cycle: compose and render --------------------- *)
\* a file name that is new at every write
WriteFile_NewName(dir, id, ext, t) == dir \cup {[id |-> id, ext |-> ext, mtime |-> t]}

\* m.save(html_path) / save_screenshot(png_path): the path is made of the
\* output directory and the alert ID, and an existing file is overwritten
WriteFile(dir, id, ext, t) ==
    {f \in dir : ~(f.id = id /\ f.ext = ext)} \cup {[id |-> id, ext |-> ext, mtime |-> t]}

RemoveFile(dir, id, ext) == {f \in dir : ~(f.id = id /\ f.ext = ext)}

\* the output directory when the document is left behind after a render
AfterMap_KeepHtml(dir, id, res, t) ==
    IF res = "png" THEN WriteFile(WriteFile(dir, id, "html", t), id, "png", t)
    ELSE IF res = "html" THEN WriteFile(dir, id, "html", t)
    ELSE dir

\* the output directory after create_warning_map returned res for alert id
AfterMap(dir, id, res, t) ==
    IF res = "png" THEN WriteFile(RemoveFile(dir, id, "html"), id, "png", t)
    ELSE IF res = "html" THEN WriteFile(dir, id, "html", t)
    ELSE dir

\* the render loop giving up at the first failed alert
NextAlert_Abort(i, res) == IF res = "failed" THEN Len(new_alerts) + 1 ELSE i + 1

\* the render loop moves on to the next alert whatever the result was
NextAlert(i, res) == i + 1

\* check_and_generate_warnings: one iteration of the loop over new_alerts;
\* create_warning_map returns the image path ("png"), the document path when
\* html_to_image failed ("html"), or "" when composing failed ("failed")
RenderAlert ==
    /\ pc = "render"
    /\ LET alert == new_alerts[ridx]
       IN IF HasPolygonData(alert)
          THEN \E res \in {"png", "html", "failed"} :
                 /\ image_path' = res
                 /\ attempts' = Append(attempts, alert.id)
                 /\ cycle_exc' = (cycle_exc \/ res # "png")
                 /\ outputDir' = AfterMap(outputDir, alert.id, res, now)
                 /\ ridx' = NextAlert(ridx, res)
          ELSE /\ ridx' = NextAlert(ridx, "skipped")
               /\ image_path' = "unset"
               /\ UNCHANGED <<attempts, cycle_exc, outputDir>>
    /\ pc' = IF ridx' > Len(new_alerts) THEN "cycle_end" ELSE "render"
    /\ UNCHANGED <<callVars, caller, envVars, pollVars, schedVars, crashVars, disk, durable>>

\* check_and_generate_warnings returns and its services and locals are dropped:
\* to main (line 236, which then sets consecutive_errors = 0) or to run_pending
CycleEnd ==
    /\ pc = "cycle_end"
    /\ IF caller = "initial"
       THEN /\ pc' = "loop"
            /\ consecutive_errors' = 0
       ELSE /\ pc' = "sleep"
            /\ UNCHANGED consecutive_errors
    /\ processed_alerts' = {}
    /\ entries' = <<>>
    /\ idx' = 1
    /\ alert_data' = "unset"
    /\ new_alerts' = <<>>
    /\ ridx' = 1
    /\ image_path' = "unset"
    /\ attempts' = <<>>
    /\ cycle_exc' = FALSE
    /\ UNCHANGED <<callVars, caller, envVars, crashVars, disk, outputDir, durable, jobs, streak,
                   justReset>>

(* ------------------------- the scheduler loop -------------------------- *)
\* the handler forgetting to count
AfterFault_Stuck(c) == c

\* 'consecutive_errors += 1'
AfterFault(c) == c + 1

\* the two registrations without the schedule.clear() before them
Reregister_NoClear(js) == js \o Registered

\* schedule.clear() followed by the two registrations
Reregister(js) == Registered

\* the cleanup removing the files at the threshold too
CleanedUp_AtThreshold(dir, t) == {f \in dir : ~(t - f.mtime >= max_age_hours)}

\* the cleanup job: cleanup_old_files removes the files older than max_age_hours
CleanedUp(dir, t) == {f \in dir : ~(t - f.mtime > max_age_hours)}

JobsOf(js) == {js[i] : i \in 1..Len(js)}

\* the poll job started from a timer thread, whatever the main thread does
RunPendingPoll_Threaded ==
    /\ pc \in {"loop", "render"}
    /\ "poll" \in JobsOf(jobs)
    /\ caller' = "job"
    /\ justReset' = FALSE
    /\ pc' = "load"
    /\ UNCHANGED <<callVars, envVars, pollVars, renderVars, crashVars, disk, outputDir,
                   durable, cycle_exc, consecutive_errors, jobs, streak>>

\* schedule.run_pending(): the poll job is due (run_scheduled_job)
RunPendingPoll ==
    /\ pc = "loop"
    /\ "poll" \in JobsOf(jobs)
    /\ caller' = "job"
    /\ justReset' = FALSE
    /\ pc' = "load"
    /\ UNCHANGED <<callVars, envVars, pollVars, renderVars, crashVars, disk, outputDir, durable,
                   cycle_exc, consecutive_errors, jobs, streak>>

\* schedule.run_pending(): the daily cleanup job is due (cleanup_old_files)
RunPendingCleanup ==
    /\ pc = "loop"
    /\ "cleanup" \in JobsOf(jobs)
    /\ outputDir' = CleanedUp(outputDir, now)
    /\ justReset' = FALSE
    /\ pc' = "sleep"
    /\ UNCHANGED <<callVars, caller, envVars, pollVars, renderVars, crashVars, disk, durable,
                   cycle_exc, consecutive_errors, jobs, streak>>

\* schedule.run_pending(): no job is due
RunPendingNone ==
    /\ pc = "loop"
    /\ justReset' = FALSE
    /\ pc' = "sleep"
    /\ UNCHANGED <<callVars, caller, envVars, pollVars, renderVars, crashVars, disk, outputDir,
                   durable, cycle_exc, consecutive_errors, jobs, streak>>

\* time.sleep(1) returns and the iteration ends: 'consecutive_errors = 0'
SleepDone ==
    /\ pc = "sleep"
    /\ consecutive_errors' = 0
    /\ streak' = 0
    /\ pc' = "loop"
    /\ UNCHANGED <<callVars, caller, envVars, pollVars, renderVars, crashVars, disk, outputDir,
                   durable, cycle_exc, jobs, justReset>>

\* the handler resetting only once the counter is past the threshold
LoopFault_Late ==
    /\ pc \in {"loop", "sleep"}
    /\ LET c == AfterFault(consecutive_errors)
       IN IF c > max_consecutive_errors
          THEN /\ jobs' = Reregister(jobs)
               /\ consecutive_errors' = 0
               /\ streak' = 0
               /\ justReset' = TRUE
          ELSE /\ consecutive_errors' = c
               /\ streak' = Min(streak + 1, max_consecutive_errors + 1)
               /\ justReset' = FALSE
               /\ UNCHANGED jobs
    /\ pc' = "loop"
    /\ UNCHANGED <<callVars, caller, envVars, pollVars, renderVars, crashVars, disk,
                   outputDir, durable, cycle_exc>>

\* schedule.run_pending() or time.sleep(1) raises an Exception: the handler of
\* the loop counts it, resets the scheduler at the threshold, sleeps 5 seconds
LoopFault ==
    /\ pc \in {"loop", "sleep"}
    /\ LET c == AfterFault(consecutive_errors)
       IN IF c >= max_consecutive_errors
          THEN /\ jobs' = Reregister(jobs)
               /\ consecutive_errors' = 0
               /\ streak' = 0
               /\ justReset' = TRUE
          ELSE /\ consecutive_errors' = c
               /\ streak' = Min(streak + 1, max_consecutive_errors + 1)
               /\ justReset' = FALSE
               /\ UNCHANGED jobs
    /\ pc' = "loop"
    /\ UNCHANGED <<callVars, caller, envVars, pollVars, renderVars, crashVars, disk, outputDir,
                   durable, cycle_exc>>

(* ------------------- stop signal, crash and restart -------------------- *)
\* the IDs the current poll has marked
MarkedInPoll == {new_alerts[i].id : i \in 1..Len(new_alerts)}

\* the process ends at its current position: its memory is gone, the store
\* file and the output directory stay as they are
Halt(how) ==
    /\ pc \in Running
    /\ pc' = how
    /\ IF pc \in {"entries", "save_open"} /\ MarkedInPoll # {}
       THEN /\ knownAtCrash' = processed_alerts
            /\ lostMarks' = MarkedInPoll
            /\ recovering' = TRUE
       ELSE UNCHANGED crashVars
    /\ caller' = "initial"
    /\ processed_alerts' = {}
    /\ entries' = <<>>
    /\ idx' = 1
    /\ alert_data' = "unset"
    /\ new_alerts' = <<>>
    /\ ridx' = 1
    /\ image_path' = "unset"
    /\ attempts' = <<>>
    /\ cycle_exc' = FALSE
    /\ consecutive_errors' = 0
    /\ jobs' = <<>>
    /\ streak' = 0
    /\ justReset' = FALSE
    /\ UNCHANGED <<callVars, envVars, disk, outputDir, durable>>

\* KeyboardInterrupt: not an Exception, so no handler below main's catches it
Interrupt == Halt("stopped")

\* the process is killed
Crash == Halt("crashed")

\* the service is started again
Restart ==
    /\ pc \in {"stopped", "crashed"}
    /\ pc' = "start"
    /\ UNCHANGED <<callVars, caller, envVars, pollVars, renderVars, schedVars, crashVars, disk,
                   outputDir, durable, cycle_exc>>

(* ---------------------------- environment ------------------------------ *)
Quiet == {"sleep", "stopped", "crashed"}

\* time passes between two iterations, or while the service is down
Tick ==
    /\ pc \in Quiet
    /\ now + ClockStep <= MaxTime
    /\ now' = now + ClockStep
    /\ UNCHANGED <<callVars, pc, caller, feedKind, feed, pollVars, renderVars, schedVars,
                   crashVars, disk, outputDir, durable, cycle_exc>>

Next ==
    \/ Start \/ Load \/ FetchOk \/ FetchFail \/ JsonEntry \/ XmlEntry
    \/ SaveOpen \/ SaveDump \/ RenderAlert \/ CycleEnd
    \/ RunPendingPoll \/ RunPendingCleanup \/ RunPendingNone \/ SleepDone \/ LoopFault
    \/ Interrupt \/ Crash \/ Restart \/ Tick

Spec == Init /\ [][Next]_vars

(* ------------- a rendering backend that may never return -------------- *)
\* html_to_image: the document is saved, then webdriver.Chrome(...),
\* driver.get(...) or save_screenshot(...) blocks; no timeout is set on the
\* driver or around the call, so create_warning_map never returns and the
\* process stays inside the cycle
RenderHang ==
    /\ pc = "render"
    /\ HasPolygonData(new_alerts[ridx])
    /\ attempts' = Append(attempts, new_alerts[ridx].id)
    /\ outputDir' = WriteFile(outputDir, new_alerts[ridx].id, "html", now)
    /\ pc' = "hung"
    /\ UNCHANGED <<callVars, caller, envVars, pollVars, ridx, image_path, schedVars,
                   crashVars, disk, durable, cycle_exc>>

\* the steps the running process takes by itself
Step ==
    \/ Start \/ Load \/ FetchOk \/ FetchFail \/ JsonEntry \/ XmlEntry
    \/ SaveOpen \/ SaveDump \/ RenderAlert \/ CycleEnd
    \/ RunPendingPoll \/ RunPendingCleanup \/ RunPendingNone \/ SleepDone

\* the service left running, never stopped or killed
NextLive == Step \/ LoopFault \/ Tick \/ RenderHang

\* the process is never starved: main is the only thread and keeps running
SpecLive == Init /\ [][NextLive]_vars /\ WF_vars(Step)

(* ------------- a store file with an unparsable processed_at ------------ *)
\* a record of the store file whose processed_at fromisoformat rejects
\* (the inner except of _load_processed_alerts keeps it); a missing
\* processed_at reads as '' and is rejected the same way
LegacyRecord == [id |-> "a1", processed_at |-> -1, event |-> "Tornado Warning"]

\* the service starts on a store file that holds such a record
InitLegacy ==
    /\ pc = "start"
    /\ caller = "initial"
    /\ now = 0
    /\ feedKind \in {"json", "xml"}
    /\ feed \in Feeds
    /\ disk = [state |-> "valid", data |-> {LegacyRecord}]
    /\ processed_alerts = {}
    /\ entries = <<>>
    /\ idx = 1
    /\ alert_data = "unset"
    /\ new_alerts = <<>>
    /\ ridx = 1
    /\ image_path = "unset"
    /\ outputDir = {}
    /\ consecutive_errors = 0
    /\ jobs = <<>>
    /\ durable = {LegacyRecord}
    /\ attempts = <<>>
    /\ cycle_exc = FALSE
    /\ knownAtCrash = {}
    /\ lostMarks = {}
    /\ recovering = FALSE
    /\ streak = 0
    /\ justReset = FALSE
    /\ event_type = ""
    /\ color = ""
    /\ feature = F0
    /\ warning = NoWarning
    /\ bounds = <<>>
    /\ affected_areas = ""
    /\ hazards = ""

SpecLegacy == InitLegacy /\ [][Next]_vars

(* ------------------ MapService._get_warning_color ---------------------- *)
UpperCase == "ABCDEFGHIJKLMNOPQRSTUVWXYZ"
LowerCase == "abcdefghijklmnopqrstuvwxyz"

\* str.lower() of one character
LowerChar(c) ==
    IF \E i \in 1..Len(UpperCase) : SubSeq(UpperCase, i, i) = c
    THEN LET i == CHOOSE k \in 1..Len(UpperCase) : SubSeq(UpperCase, k, k) = c
         IN SubSeq(LowerCase, i, i)
    ELSE c

\* str.lower()
RECURSIVE lower(_)
lower(s) == IF s = "" THEN "" ELSE LowerChar(SubSeq(s, 1, 1)) \o lower(Tail(s))

\* 'sub in s' of two strings
Contains(sub, s) ==
    \E i \in 1..(Len(s) - Len(sub) + 1) : SubSeq(s, i, i + Len(sub) - 1) = sub

\* the dict warning_colors, in insertion order
warning_colors == <<
    <<"Tornado Warning", "#FF0000">>,
    <<"Tornado Emergency", "#FF00FF">>,
    <<"Severe Thunderstorm Warning", "#FFFF00">>,
    <<"Flash Flood Warning", "#00FF00">>,
    <<"Flash Flood Emergency", "#00FFFF">>,
    <<"Flood Warning", "#00A000">>,
    <<"Areal Flood Warning", "#00A0A0">>,
    <<"Flood Advisory", "#00A000">>,
    <<"Winter Storm Warning", "#FF69B4">>,
    <<"Ice Storm Warning", "#FF69B4">>,
    <<"Blizzard Warning", "#FF69B4">>,
    <<"Lake Effect Snow Warning", "#FF69B4">>,
    <<"Winter Weather Advisory", "#FFC0CB">>,
    <<"Freezing Rain Advisory", "#FFC0CB">>,
    <<"High Wind Warning", "#A52A2A">>,
    <<"Wind Advisory", "#DEB887">>,
    <<"Hurricane Warning", "#FD6347">>,
    <<"Tropical Storm Warning", "#FD6347">>,
    <<"Storm Surge Warning", "#FD6347">>,
    <<"Coastal Flood Warning", "#6495ED">>,
    <<"Red Flag Warning", "#FF4500">>,
    <<"Fire Weather Warning", "#FF4500">>,
    <<"Excessive Heat Warning", "#8B0000">>,
    <<"Heat Advisory", "#CD5C5C">>,
    <<"Wind Chill Warning", "#9400D3">>,
    <<"Extreme Cold Warning", "#9400D3">>,
    <<"Air Quality Alert", "#808080">>,
    <<"Dust Storm Warning", "#D2691E">>,
    <<"Dense Fog Advisory", "#F0E68C">> >>

\* the list of name portions of the fallback loop
key_parts == <<"Tornado", "Severe", "Flash Flood", "Flood", "Winter", "Wind",
               "Hurricane", "Tropical", "Heat", "Cold", "Fire">>

\* warning_colors.get(event_type): "" stands for None
ExactColor(et) ==
    LET I == {i \in 1..Len(warning_colors) : warning_colors[i][1] = et}
    IN IF I = {} THEN "" ELSE warning_colors[CHOOSE i \in I : TRUE][2]

\* the inner loop over warning_colors.items() for one key_part: the indices
\* of the entries whose key contains it
TypesWith(key_part) ==
    {i \in 1..Len(warning_colors) : Contains(lower(key_part), lower(warning_colors[i][1]))}

\* the outer loop: the positions of key_parts that return a color
PartsOf(et) ==
    {k \in 1..Len(key_parts) :
        Contains(lower(key_parts[k]), lower(et)) /\ TypesWith(key_parts[k]) # {}}

\* the severity terms of the default fallback
SeverityColor(et) ==
    IF Contains("warning", lower(et)) THEN "#FF0000"
    ELSE IF Contains("watch", lower(et)) THEN "#FFA500"
    ELSE IF Contains("advisory", lower(et)) THEN "#FFFF00"
    ELSE "#808080"

\* the fallback loops with the severity terms looked at first
FallbackColor_SeverityFirst(et) ==
    IF SeverityColor(et) # "#808080" THEN SeverityColor(et)
    ELSE IF PartsOf(et) # {}
    THEN LET k == CHOOSE j \in PartsOf(et) : \A l \in PartsOf(et) : j <= l
             T == TypesWith(key_parts[k])
         IN warning_colors[CHOOSE i \in T : \A l \in T : i <= l][2]
    ELSE "#808080"

\* lines 590-607: the name portions, then the severity terms, then gray
FallbackColor(et) ==
    IF PartsOf(et) # {}
    THEN LET k == CHOOSE j \in PartsOf(et) : \A l \in PartsOf(et) : j <= l
             T == TypesWith(key_parts[k])
         IN warning_colors[CHOOSE i \in T : \A l \in T : i <= l][2]
    ELSE SeverityColor(et)

\* _get_warning_color
get_warning_color(et) ==
    IF ExactColor(et) # "" THEN ExactColor(et) ELSE FallbackColor(et)

\* the event names the function is called with
Families == {"Tornado", "Severe Thunderstorm", "Flash Flood", "Coastal Flood", "Winter Storm",
             "High Wind", "Hurricane Force Wind", "Tropical Storm", "Excessive Heat",
             "Extreme Cold", "Fire Weather", "Unknown Phenomenon", "Air Quality", "Dense Fog"}
Classes == {" Warning", " Watch", " Advisory", " Statement", " Emergency Update", " WARNING"}
Events ==
    {f \o c : f \in Families, c \in Classes}
    \cup {warning_colors[i][1] : i \in 1..Len(warning_colors)}
    \cup {"", "tornado warning", "Special Weather Statement", "Flood Watch"}

\* one call of _get_warning_color, on its own
InitColor ==
    /\ pc = "call"
    /\ caller = "initial"
    /\ now = 0
    /\ feedKind = "json"
    /\ feed = <<F1, F2>>
    /\ disk = NoDisk
    /\ processed_alerts = {}
    /\ entries = <<>>
    /\ idx = 1
    /\ alert_data = "unset"
    /\ new_alerts = <<>>
    /\ ridx = 1
    /\ image_path = "unset"
    /\ outputDir = {}
    /\ consecutive_errors = 0
    /\ jobs = <<>>
    /\ durable = {}
    /\ attempts = <<>>
    /\ cycle_exc = FALSE
    /\ knownAtCrash = {}
    /\ lostMarks = {}
    /\ recovering = FALSE
    /\ streak = 0
    /\ justReset = FALSE
    /\ event_type \in Events
    /\ color = ""
    /\ feature = F0
    /\ warning = NoWarning
    /\ bounds = <<>>
    /\ affected_areas = ""
    /\ hazards = ""

GetWarningColor ==
    /\ pc = "call"
    /\ color' = get_warning_color(event_type)
    /\ pc' = "return"
    /\ UNCHANGED <<caller, envVars, pollVars, renderVars, schedVars, crashVars, disk,
                   outputDir, durable, cycle_exc, event_type, feature, warning, bounds,
                   affected_areas, hazards>>

NextColor == GetWarningColor

SpecColor == InitColor /\ [][NextColor]_vars

(* ---------------- WarningService._extract_warnings --------------------- *)
\* the longest flat polygon string, in tokens
MaxTokens == 3

\* the tokens of a flat polygon string: three points, a token with one number
\* and a token with three numbers
Tokens == {<<350, -880>>, <<351, -881>>, <<352, -882>>, <<350>>, <<350, -880, 10>>}

RECURSIVE TokenSeqs(_)
TokenSeqs(n) ==
    IF n = 0 THEN {<<>>}
    ELSE TokenSeqs(n - 1) \cup {Append(q, t) : q \in TokenSeqs(n - 1), t \in Tokens}

\* the features of an API response: with a Polygon geometry, with another
\* geometry, or without geometry, and with or without a flat polygon string
Features ==
    {Feature("a1", "Flood Warning", g[1], g[2], q) :
        g \in {<<"Polygon", Ring1>>, <<"Point", <<>>>>, <<"none", <<>>>>},
        q \in TokenSeqs(MaxTokens)}

\* the flat string coming before the geometry
ExtractOne_FlatFirst(f) ==
    IF f.polygon_str # <<>>
    THEN [id |-> f.id, event |-> f.event, has_polygon |-> TRUE,
          polygon |-> ParsePolygonStr(f.polygon_str)]
    ELSE ExtractWarning(f)

\* _extract_warnings({'features': [f]})[0]
ExtractOne(f) == ExtractWarnings(<<f>>)[1]

\* one call of _extract_warnings, on its own
InitExtract ==
    /\ pc = "call"
    /\ caller = "initial"
    /\ now = 0
    /\ feedKind = "json"
    /\ feed = <<F1, F2>>
    /\ disk = NoDisk
    /\ processed_alerts = {}
    /\ entries = <<>>
    /\ idx = 1
    /\ alert_data = "unset"
    /\ new_alerts = <<>>
    /\ ridx = 1
    /\ image_path = "unset"
    /\ outputDir = {}
    /\ consecutive_errors = 0
    /\ jobs = <<>>
    /\ durable = {}
    /\ attempts = <<>>
    /\ cycle_exc = FALSE
    /\ knownAtCrash = {}
    /\ lostMarks = {}
    /\ recovering = FALSE
    /\ streak = 0
    /\ justReset = FALSE
    /\ event_type = ""
    /\ color = ""
    /\ feature \in Features
    /\ warning = NoWarning
    /\ bounds = <<>>
    /\ affected_areas = ""
    /\ hazards = ""

ExtractCall ==
    /\ pc = "call"
    /\ warning' = ExtractOne(feature)
    /\ pc' = "return"
    /\ UNCHANGED <<caller, envVars, pollVars, renderVars, schedVars, crashVars, disk,
                   outputDir, durable, cycle_exc, event_type, color, feature, bounds,
                   affected_areas, hazards>>

NextExtract == ExtractCall

SpecExtract == InitExtract /\ [][NextExtract]_vars

(* ------------- MapService.create_warning_map: the bounds --------------- *)
\* the pipeline at rest while one function of it is called on its own
Idle ==
    /\ pc = "call"
    /\ caller = "initial"
    /\ now = 0
    /\ feedKind = "json"
    /\ disk = NoDisk
    /\ processed_alerts = {}
    /\ entries = <<>>
    /\ idx = 1
    /\ alert_data = "unset"
    /\ new_alerts = <<>>
    /\ ridx = 1
    /\ image_path = "unset"
    /\ outputDir = {}
    /\ consecutive_errors = 0
    /\ jobs = <<>>
    /\ durable = {}
    /\ attempts = <<>>
    /\ cycle_exc = FALSE
    /\ knownAtCrash = {}
    /\ lostMarks = {}
    /\ recovering = FALSE
    /\ streak = 0
    /\ justReset = FALSE

\* what a call of one function leaves alone
idleVars == <<caller, envVars, pollVars, renderVars, schedVars, crashVars, disk,
              outputDir, durable, cycle_exc>>

\* points of a polygon in this model
MaxPoints == 3

\* coordinates are in tenths of a degree; padding = 0.1
padding == 1

\* longitudes and latitudes of the vertices, and a point with one number only
Lons == {-880, -875, -870}
Lats == {350, 355, 360}
Points == {<<lon, lat>> : lon \in Lons, lat \in Lats} \cup {<<-880>>}

\* the non-empty polygons create_warning_map accepts, points as [lon, lat]
Polygons == UNION {[1..n -> Points] : n \in 1..MaxPoints}

MinOf(S) == CHOOSE x \in S : \A y \in S : x <= y
MaxOf(S) == CHOOSE x \in S : \A y \in S : x >= y

\* the polygon kept as [lon, lat]
formatted_polygon_NoSwap(polygon) ==
    SelectSeq(polygon, LAMBDA point : Len(point) >= 2)

\* formatted_polygon: [point[1], point[0]] of every point with two numbers
formatted_polygon(polygon) ==
    LET kept == SelectSeq(polygon, LAMBDA point : Len(point) >= 2)
    IN [i \in 1..Len(kept) |-> <<kept[i][2], kept[i][1]>>]

\* the bounds handed to m.fit_bounds; <<>> when fit_bounds is not called
FitBounds(polygon) ==
    LET fp == formatted_polygon(polygon)
        lat == {fp[i][1] : i \in 1..Len(fp)}
        lon == {fp[i][2] : i \in 1..Len(fp)}
    IN IF fp = <<>> THEN <<>>
       ELSE << <<MinOf(lat) - padding, MinOf(lon) - padding>>,
               <<MaxOf(lat) + padding, MaxOf(lon) + padding>> >>

InitBounds ==
    /\ Idle
    /\ feed = <<F1, F2>>
    /\ event_type = ""
    /\ color = ""
    /\ feature = F0
    /\ \E poly \in Polygons :
         warning = [id |-> "a1", event |-> "Tornado Warning", has_polygon |-> TRUE,
                    polygon |-> poly]
    /\ bounds = <<>>
    /\ affected_areas = ""
    /\ hazards = ""

CreateWarningMapBounds ==
    /\ pc = "call"
    /\ HasPolygonData(warning)
    /\ bounds' = FitBounds(warning.polygon)
    /\ pc' = "return"
    /\ UNCHANGED <<idleVars, event_type, color, feature, warning, affected_areas, hazards>>

SpecBounds == InitBounds /\ [][CreateWarningMapBounds]_vars

(* --------------- MapService._extract_affected_areas -------------------- *)
\* str.find(sub): index from 0 of the first occurrence, -1 when there is none
Find(sub, s) ==
    LET at == {i \in 1..(Len(s) - Len(sub) + 1) : SubSeq(s, i, i + Len(sub) - 1) = sub}
    IN IF at = {} THEN -1 ELSE MinOf(at) - 1

\* str.find(sub, start)
FindFrom(sub, s, start) ==
    LET at == {i \in (start + 1)..(Len(s) - Len(sub) + 1) :
                 SubSeq(s, i, i + Len(sub) - 1) = sub}
    IN IF at = {} THEN -1 ELSE MinOf(at) - 1

\* s[a:b] for 0 <= a, b within the string
Slice(s, a, b) == SubSeq(s, a + 1, b)

\* str.strip(), the blank being the only whitespace of the texts used here
RECURSIVE Strip(_)
Strip(s) ==
    IF s = "" THEN ""
    ELSE IF SubSeq(s, 1, 1) = " " THEN Strip(Tail(s))
    ELSE IF SubSeq(s, Len(s), Len(s)) = " " THEN Strip(SubSeq(s, 1, Len(s) - 1))
    ELSE s

AreasPlaceholder == "See warning details for specific locations"

\* _extract_affected_areas; a dict key that may be missing is a flag has_<key>
extract_affected_areas(w) ==
    IF w.has_areaDesc THEN w.areaDesc
    ELSE LET headline == w.headline
             counties_start == Find("county", lower(headline))
         IN IF /\ (Contains("county", lower(headline)) \/ Contains("counties", lower(headline)))
               /\ counties_start > 0
            THEN Strip(Slice(headline, 0, counties_start))
            ELSE LET description == w.description
                     includes_idx == Find("includes the count", lower(description))
                     start_idx == includes_idx + 18
                     end_idx == FindFrom(".", description, start_idx)
                 IN IF description # "" /\ includes_idx > 0 /\ end_idx > start_idx
                    THEN Strip(Slice(description, start_idx, end_idx))
                    ELSE AreasPlaceholder

\* the properties of an upstream feature that bear on the area text:
\* areaDesc (may be missing), the names the affectedZones resolve to (<<>>
\* when the key is missing; a zone may have no name), whether a zone request
\* fails, headline and description
Headlines == {"",
              "Tornado Warning issued for Davidson County until 5 PM",
              "Flood Warning for Shelby and Fayette Counties",
              "County officials report flooding"}
Descriptions == {"",
                 "This includes the counties of Davidson and Shelby. Seek shelter.",
                 "Heavy rain is expected."}
AreaProps ==
    [has_areaDesc : BOOLEAN, areaDesc : {"", "Davidson; Shelby"},
     zone_names : {<<>>, <<"Davidson", "">>}, zone_error : BOOLEAN,
     headline : Headlines, description : Descriptions]

\* ', '.join(names)
RECURSIVE Join(_)
Join(names) ==
    IF names = <<>> THEN ""
    ELSE IF Len(names) = 1 THEN names[1]
    ELSE names[1] \o ", " \o Join(Tail(names))

\* _extract_warnings, the area text: 'areaDesc': props.get('areaDesc', ''),
\* replaced by the joined zone names when it is empty and there are names
NormalizedAreas(props) ==
    LET area == IF props.has_areaDesc THEN props.areaDesc ELSE ""
        named == SelectSeq(props.zone_names, LAMBDA n : n # "")
    IN [has_areaDesc |-> TRUE,
        areaDesc |-> IF area = "" /\ ~props.zone_error /\ named # <<>>
                     THEN Join(named) ELSE area,
        headline |-> props.headline,
        description |-> props.description]

InitAreas ==
    /\ Idle
    /\ feed = <<F1, F2>>
    /\ event_type = ""
    /\ color = ""
    /\ feature \in {p \in AreaProps : p.has_areaDesc \/ p.areaDesc = ""}
    /\ warning = NoWarning
    /\ bounds = <<>>
    /\ affected_areas = ""
    /\ hazards = ""

\* the Normalizer builds the warning
ExtractWarningsAreas ==
    /\ pc = "call"
    /\ warning' = NormalizedAreas(feature)
    /\ pc' = "normalized"
    /\ UNCHANGED <<idleVars, event_type, color, feature, bounds, affected_areas, hazards>>

\* create_warning_map asks for the area text of the warning
ExtractAffectedAreas ==
    /\ pc = "normalized"
    /\ affected_areas' = extract_affected_areas(warning)
    /\ pc' = "return"
    /\ UNCHANGED <<idleVars, event_type, color, feature, warning, bounds, hazards>>

NextAreas == ExtractWarningsAreas \/ ExtractAffectedAreas

SpecAreas == InitAreas /\ [][NextAreas]_vars

(* ----------- MapService._extract_hazards_from_description -------------- *)
\* hazards[:250]
HazardsLimit == 250

CharAt(s, i) == SubSeq(s, i, i)

\* the class [^\\n\\n] of the pattern under re.IGNORECASE: the pattern is a
\* raw string with doubled backslashes, so the class excludes the backslash
\* and the letter n, not the line feed
InHazardClass(c) == c \notin {"\\", "n", "N"}

\* the pattern matches at position i (from 1): "HAZARD" in any case, three
\* times a backslash followed by any character but a line feed, then at
\* least one character of the class
HazardMatchAt(s, i) ==
    /\ i + 12 <= Len(s)
    /\ lower(SubSeq(s, i, i + 5)) = "hazard"
    /\ \A k \in {6, 8, 10} : CharAt(s, i + k) = "\\" /\ CharAt(s, i + k + 1) # "\n"
    /\ InHazardClass(CharAt(s, i + 12))

\* the longest run of characters of the class from position i
RECURSIVE HazardRun(_, _)
HazardRun(s, i) ==
    IF i <= Len(s) /\ InHazardClass(CharAt(s, i))
    THEN CharAt(s, i) \o HazardRun(s, i + 1)
    ELSE ""

\* re.search(...).group(1) of the leftmost match; "" when there is no match
HazardGroup(s) ==
    LET at == {i \in 1..Len(s) : HazardMatchAt(s, i)}
    IN IF at = {} THEN "" ELSE HazardRun(s, MinOf(at) + 12)

\* str.strip() with the line feed among the whitespace
RECURSIVE StripWs(_)
StripWs(s) ==
    IF s = "" THEN ""
    ELSE IF CharAt(s, 1) \in {" ", "\n"} THEN StripWs(Tail(s))
    ELSE IF CharAt(s, Len(s)) \in {" ", "\n"} THEN StripWs(SubSeq(s, 1, Len(s) - 1))
    ELSE s

\* str.replace("...", "")
RECURSIVE RemoveDots(_)
RemoveDots(s) ==
    IF Len(s) < 3 THEN s
    ELSE IF SubSeq(s, 1, 3) = "..." THEN RemoveDots(SubSeq(s, 4, Len(s)))
    ELSE CharAt(s, 1) \o RemoveDots(Tail(s))

\* the keyword scan, in the order of the code
HazardKeywords == << <<"hail", "Hail">>, <<"wind gusts", "Wind Gusts">>,
                    <<"tornado", "Tornado">>, <<"flooding", "Flooding">> >>

potential_hazards(description) ==
    LET found == SelectSeq(HazardKeywords, LAMBDA kw : Contains(kw[1], lower(description)))
    IN [i \in 1..Len(found) |-> found[i][2]]

\* _extract_hazards_from_description
extract_hazards_from_description(description) ==
    IF description = "" THEN "Not specified"
    ELSE IF HazardGroup(description) # ""
    THEN LET cleaned == StripWs(RemoveDots(StripWs(HazardGroup(description))))
         IN IF Len(cleaned) > HazardsLimit
            THEN SubSeq(cleaned, 1, HazardsLimit) \o "..."
            ELSE cleaned
    ELSE IF potential_hazards(description) # <<>>
    THEN Join(potential_hazards(description))
    ELSE "See description for details"

\* descriptions: a label, a text, what follows
HazardLabels == {"", "HAZARD...", "Hazard...", "HAZARD\\.\\.\\.", "* WHAT..."}
HazardTexts == {"60 mph wind gusts and quarter size hail.",
                "Tornado.",
                "Flash flooding caused by heavy rain.",
                "Heavy snow.",
                "Tor...ado, hail a...d flash floodi...g.",
                ""}
HazardTails == {"", "\n\nSOURCE...Radar indicated rotation.", " Flooding and hail are possible."}
HazardDescriptions ==
    {l \o t \o e : l \in HazardLabels, t \in HazardTexts, e \in HazardTails}

InitHazards ==
    /\ Idle
    /\ feed = <<F1, F2>>
    /\ event_type = ""
    /\ color = ""
    /\ feature = F0
    /\ \E d \in HazardDescriptions :
         warning = [id |-> "a1", event |-> "Tornado Warning", description |-> d]
    /\ bounds = <<>>
    /\ affected_areas = ""
    /\ hazards = ""

\* create_warning_map asks for the hazards of warning.get('description', '')
ExtractHazards ==
    /\ pc = "call"
    /\ hazards' = extract_hazards_from_description(warning.description)
    /\ pc' = "return"
    /\ UNCHANGED <<idleVars, event_type, color, feature, warning, bounds, affected_areas>>

SpecHazards == InitHazards /\ [][ExtractHazards]_vars

(* ------------- RSSService._process_rss_feed: the entries --------------- *)
\* entry elements of a document in this model
MaxEntries == 3

\* the namespace of an element: the Atom namespace, the CAP 1.1 namespace,
\* another namespace, or none
AtomNs == "http://www.w3.org/2005/Atom"
CapNs == "urn:oasis:names:tc:emergency:cap:1.1"
OtherNs == "urn:example:other"
NoNs == ""

\* a document: the namespaces its root declares with a prefix (xmlns:p=...)
\* and the namespaces of its entry elements, in document order
Documents ==
    [declared : SUBSET {CapNs, OtherNs},
     elems : UNION {[1..n -> {AtomNs, CapNs, OtherNs, NoNs}] : n \in 0..MaxEntries}]

\* root.attrib.items(): ElementTree consumes the xmlns declarations while
\* parsing, so no key of attrib starts with 'xmlns:'
RootXmlnsAttrib(doc) == {}

\* the dict namespaces, as the sequence of its values in insertion order:
\* the declarations seen on the root, then the two defaults
Namespaces(doc) ==
    LET seen == RootXmlnsAttrib(doc)
    IN (IF AtomNs \in seen THEN <<>> ELSE <<AtomNs>>) \o
       (IF CapNs \in seen THEN <<>> ELSE <<CapNs>>)

\* root.findall('.//{uri}entry'), './/entry' for no namespace: the positions
\* of the matching elements, in document order
FindAll(doc, uri) ==
    LET RECURSIVE From(_)
        From(i) == IF i > Len(doc.elems) THEN <<>>
                   ELSE (IF doc.elems[i] = uri THEN <<i>> ELSE <<>>) \o From(i + 1)
    IN From(1)

\* Method 1: entries.extend(found) for each namespace in turn
RECURSIVE Method1(_, _)
Method1(doc, nss) ==
    IF nss = <<>> THEN <<>> ELSE FindAll(doc, Head(nss)) \o Method1(doc, Tail(nss))

\* the three methods run one after the other, whatever was found before
FindEntries_Union(doc) ==
    Method1(doc, Namespaces(doc)) \o FindAll(doc, AtomNs) \o FindAll(doc, NoNs)

\* the three methods: 2 and 3 run only 'if not entries'
FindEntries(doc) ==
    LET m1 == Method1(doc, Namespaces(doc))
        m2 == IF m1 = <<>> THEN FindAll(doc, AtomNs) ELSE m1
    IN IF m2 = <<>> THEN FindAll(doc, NoNs) ELSE m2

InitEntries ==
    /\ Idle
    /\ feed \in Documents
    /\ event_type = ""
    /\ color = ""
    /\ feature = F0
    /\ warning = NoWarning
    /\ bounds = <<>>
    /\ affected_areas = ""
    /\ hazards = ""

\* _process_rss_feed up to 'Process each entry'
ProcessRssFeedEntries ==
    /\ pc = "call"
    /\ entries' = FindEntries(feed)
    /\ pc' = "return"
    /\ UNCHANGED <<callVars, caller, envVars, processed_alerts, idx, alert_data, new_alerts,
                   renderVars, schedVars, crashVars, disk, outputDir, durable, cycle_exc>>

SpecEntries == InitEntries /\ [][ProcessRssFeedEntries]_vars

(* ------------------------------ claims --------------------------------- *)
\* the IDs of the feed's alerts that have a non-empty polygon
PolygonIds ==
    {feed[i].id : i \in {j \in 1..Len(feed) :
        /\ feed[j].id # NoId
        /\ ExtractWarning(feed[j]).has_polygon
        /\ ExtractWarning(feed[j]).polygon # <<>>}}

\* the IDs the feed carries
FeedIds == {feed[i].id : i \in 1..Len(feed)} \ {NoId}

\* C1: an alert ID with a record in the durable store that is less than 24
\* hours old when the poller loads the store is not returned by that poll,
\* on the JSON path and on the XML path.
C1_DedupIdempotence ==
    (pc \in {"fetch", "entries", "save_open"} /\ disk.state = "valid") =>
        \A i \in 1..Len(new_alerts) : \A r \in disk.data :
            r.id = new_alerts[i].id => ~(now - r.processed_at < TTL_HOURS)

\* a later poll has gone through a feed that still carries a persisted,
\* unexpired ID and has not returned it
C1_Witness ==
    /\ pc = "save_open"
    /\ caller = "job"
    /\ disk.state = "valid"
    /\ entries # <<>>
    /\ \E r \in disk.data :
         /\ r.id \in FeedIds
         /\ now - r.processed_at > 0
         /\ now - r.processed_at < TTL_HOURS
         /\ r.id \notin MarkedInPoll

\* C2: once the cycle that detected it is over, and for as long as its
\* record is less than 24 hours old, every alert with a non-empty polygon
\* that is in the feed has an artifact, and no second artifact is produced
\* for it.
C2_ExactlyOnce ==
    /\ [](pc \in {"loop", "sleep"} =>
            \A r \in disk.data :
                (disk.state = "valid" /\ r.id \in PolygonIds /\ now - r.processed_at < TTL_HOURS)
                => \E f \in outputDir : f.id = r.id /\ f.mtime >= r.processed_at)
    /\ [][(pc = "render" /\ ridx' = ridx + 1 /\ image_path' \in {"png", "html"}) =>
            ~\E f \in outputDir : \E r \in processed_alerts :
                f.id = new_alerts[ridx].id /\ r.id = f.id /\ f.mtime > r.processed_at]_vars

\* C3: on the XML path an entry whose alert is not resolved changes neither
\* the store nor the poll result; the store and the result change together, by
\* the same ID; and an entry whose ID is not in the store is resolved anew.
C3_UnresolvedNotMarked ==
    [][(pc = "entries" /\ feedKind = "xml" /\ idx' = idx + 1) =>
         LET id == entries[idx].id
         IN /\ alert_data' # "ok" =>
                 (processed_alerts' = processed_alerts /\ new_alerts' = new_alerts)
            /\ alert_data' = "ok" =>
                 /\ Len(new_alerts') = Len(new_alerts) + 1
                 /\ new_alerts'[Len(new_alerts')].id = id
                 /\ Ids(processed_alerts') = Ids(processed_alerts) \cup {id}
                 /\ id \notin Ids(processed_alerts)
            /\ (id # NoId /\ id \notin Ids(processed_alerts)) => alert_data' # "unset"
      ]_vars

\* a scheduled poll has just failed to resolve an entry, which is not in the
\* store, after the poll before it had completed without that entry either
C3_Witness ==
    /\ feedKind = "xml"
    /\ caller = "job"
    /\ pc \in {"entries", "save_open"}
    /\ idx > 1
    /\ alert_data \in {"none", "nofeatures", "raised"}
    /\ entries[idx - 1].id \notin Ids(processed_alerts)
    /\ disk.state = "valid"
    /\ entries[idx - 1].id \notin Ids(disk.data)

\* C4: right after load the store holds no record older than 24 hours and
\* holds every persisted record whose age is at most 24 hours.
C4_LoadKeepsUpTo24h ==
    pc = "fetch" =>
        /\ \A r \in processed_alerts : now - r.processed_at <= TTL_HOURS
        /\ disk.state = "valid" =>
              \A r \in disk.data : now - r.processed_at <= TTL_HOURS => r \in processed_alerts

C6_SelfHeal ==
    [][/\ (LoopFault /\ streak = max_consecutive_errors - 1) =>
            (justReset' /\ jobs' = <<"poll", "cleanup">> /\ consecutive_errors' = 0)
       /\ justReset' =>
            /\ LoopFault
            /\ streak = max_consecutive_errors - 1
            /\ jobs' = <<"poll", "cleanup">>
            /\ consecutive_errors' = 0
       /\ (LoopFault /\ streak < max_consecutive_errors - 1) =>
            (~justReset' /\ jobs' = jobs /\ consecutive_errors' = streak + 1)
       /\ SleepDone => consecutive_errors' = 0
      ]_vars

\* the scheduler has just been reset
C6_Witness ==
    /\ justReset
    /\ pc = "loop"
    /\ consecutive_errors = 0
    /\ jobs = <<"poll", "cleanup">>

\* C7: once the loop has been stopped by the signal, the store file holds
\* every record of its last completed write.
C7_StopKeepsStore ==
    pc = "stopped" => \A r \in durable : disk.state = "valid" /\ r \in disk.data

\* C8: after a crash between a mark and the persist of the same poll, every
\* record the crashed poller had loaded is still in the store file, and the
\* poll after the restart returns, of the alerts the crashed poller knew and
\* that are less than 24 hours old, only those marked in the crashed poll.
C8_CrashLosesOnlyOnePoll ==
    recovering =>
        /\ \A r \in knownAtCrash :
             r.id \notin lostMarks => (disk.state = "valid" /\ r \in disk.data)
        /\ \A i \in 1..Len(new_alerts) : \A r \in knownAtCrash :
             (r.id = new_alerts[i].id /\ now - r.processed_at < TTL_HOURS)
             => r.id \in lostMarks

\* the poll after such a crash has returned a lost alert again and has not
\* returned an alert whose unexpired record had been persisted before
C8_Witness ==
    /\ recovering
    /\ pc = "save_open"
    /\ \E i \in 1..Len(new_alerts) : new_alerts[i].id \in lostMarks
    /\ \E r \in knownAtCrash :
         /\ r.id \notin lostMarks
         /\ r.id \in FeedIds
         /\ now - r.processed_at < TTL_HOURS
         /\ r.id \notin MarkedInPoll

\* the alert has a polygon with at least one point
C9_Renderable(a) == a.has_polygon /\ Len(a.polygon) > 0

\* C9: at the end of a cycle the alerts that got a compose+render attempt are
\* all new alerts with a non-empty polygon, in the order of the poll result.
C9_SiblingsProcessed ==
    pc = "cycle_end" =>
        LET sel == SelectSeq(new_alerts, C9_Renderable)
        IN attempts = [i \in 1..Len(sel) |-> sel[i].id]

\* a cycle has ended in which the first alert failed (it has no artifact) and
\* the second got its attempt and its artifact
C9_Witness ==
    /\ pc = "cycle_end"
    /\ Len(attempts) = 2
    /\ ~\E f \in outputDir : f.id = attempts[1]
    /\ \E f \in outputDir : f.id = attempts[2]

\* C10: a step of the render loop on an alert whose polygon is missing or
\* empty makes no attempt, writes no file, raises nothing and leaves the
\* failure counter alone; on an alert with a non-empty polygon it makes the
\* attempt.
C10_EmptyPolygonSkipped ==
    [][(pc = "render" /\ pc' \in {"render", "cycle_end"}) =>
         LET a == new_alerts[ridx]
         IN IF a.has_polygon /\ a.polygon # <<>>
            THEN attempts' = Append(attempts, a.id)
            ELSE /\ attempts' = attempts
                 /\ outputDir' = outputDir
                 /\ cycle_exc' = cycle_exc
                 /\ consecutive_errors' = consecutive_errors
                 /\ ridx' = ridx + 1
      ]_vars

\* a cycle has ended that skipped an alert with an empty polygon list and
\* attempted another alert
C10_Witness ==
    /\ pc = "cycle_end"
    /\ attempts # <<>>
    /\ \E i \in 1..Len(new_alerts) :
         /\ new_alerts[i].has_polygon
         /\ new_alerts[i].polygon = <<>>
         /\ \A k \in 1..Len(attempts) : attempts[k] # new_alerts[i].id

\* C17: the color of an event is the color of the table entry with that key;
\* otherwise, for the first name portion (in the fixed order) the event
\* contains, the color of the first table entry whose key contains it;
\* otherwise red for 'warning', orange for 'watch', yellow for 'advisory';
\* otherwise gray.  'Severe Thunderstorm Warning' is an exact match, 'Tornado
\* Emergency Update' resolves by 'Tornado', 'Unknown Phenomenon Watch' by
\* 'watch'.
C17_ColorTiers ==
    pc = "return" =>
        LET N == Len(warning_colors)
            exact == {i \in 1..N : warning_colors[i][1] = event_type}
            has(k) == Contains(lower(key_parts[k]), lower(event_type))
            parts == {k \in 1..Len(key_parts) : has(k)}
            first == CHOOSE k \in parts : \A l \in parts : k <= l
            keyed == {i \in 1..N : Contains(lower(key_parts[first]), lower(warning_colors[i][1]))}
            tier3 == IF Contains("warning", lower(event_type)) THEN "#FF0000"
                     ELSE IF Contains("watch", lower(event_type)) THEN "#FFA500"
                     ELSE IF Contains("advisory", lower(event_type)) THEN "#FFFF00"
                     ELSE "#808080"
        IN /\ color = IF exact # {} THEN warning_colors[CHOOSE i \in exact : TRUE][2]
                      ELSE IF parts # {}
                      THEN warning_colors[CHOOSE i \in keyed : \A j \in keyed : i <= j][2]
                      ELSE tier3
           /\ event_type = "Severe Thunderstorm Warning" => (exact # {} /\ color = "#FFFF00")
           /\ event_type = "Tornado Emergency Update" =>
                (exact = {} /\ first = 1 /\ color = "#FF0000")
           /\ event_type = "Unknown Phenomenon Watch" =>
                (exact = {} /\ parts = {} /\ color = "#FFA500")

\* the color of 'Flood Watch' has been resolved by the 'Flood' name portion,
\* ahead of the 'watch' severity term
C17_Witness ==
    /\ pc = "return"
    /\ event_type = "Flood Watch"
    /\ color = "#00FF00"

\* C18: a flat polygon string gives its points in the same order, each pair
\* swapped to [lon, lat]; the ring of a Polygon geometry is taken as it is and
\* comes before the flat string.
C18_PolygonNormalized ==
    pc = "return" =>
        LET q == feature.polygon_str
        IN /\ feature.geometry_type = "Polygon" =>
                (warning.has_polygon /\ warning.polygon = feature.coordinates)
           /\ (feature.geometry_type # "Polygon" /\ q # <<>>
               /\ \A i \in 1..Len(q) : Len(q[i]) = 2) =>
                /\ warning.has_polygon
                /\ Len(warning.polygon) = Len(q)
                /\ \A i \in 1..Len(q) : warning.polygon[i] = <<q[i][2], q[i][1]>>
           /\ (feature.geometry_type # "Polygon"
               /\ q = << <<350, -880>>, <<351, -881>>, <<352, -882>> >>) =>
                warning.polygon = << <<-880, 350>>, <<-881, 351>>, <<-882, 352>> >>

\* a feature with a Polygon geometry and a flat string has been extracted
C18_Witness ==
    /\ pc = "return"
    /\ feature.geometry_type = "Polygon"
    /\ feature.polygon_str = Flat2
    /\ warning.polygon = Ring1

\* C19: the polygon of an extracted warning is empty or absent, or has at
\* least 3 points.
C19_AtLeastThreePoints ==
    pc = "return" => (warning.polygon = <<>> \/ Len(warning.polygon) >= 3)

C12_FetchFailure ==
    /\ []((pc \in {"save_open", "save_dump", "cycle_end"} /\ entries = <<>> /\ cycle_exc) =>
            /\ new_alerts = <<>>
            /\ attempts = <<>>
            /\ "poll" \in JobsOf(jobs)
            /\ pc = "save_open" => processed_alerts = LoadProcessedAlerts(disk, now)
            /\ pc = "cycle_end" => disk = [state |-> "valid", data |-> processed_alerts])
    /\ [][(pc = "fetch" /\ cycle_exc' /\ ~cycle_exc) =>
            /\ pc' = "save_open"
            /\ processed_alerts' = processed_alerts
            /\ new_alerts' = <<>>
            /\ consecutive_errors' = consecutive_errors]_vars

\* a scheduled poll whose feed request failed is about to save the records
\* it loaded
C12_Witness ==
    /\ pc = "save_open"
    /\ caller = "job"
    /\ entries = <<>>
    /\ cycle_exc
    /\ processed_alerts # {}

\* C13: an entry without an ID changes neither the store nor the result and
\* the loop goes on to the next entry; no record is ever kept for a missing
\* ID; the loop reaches the end of the feed, and an entry with an ID that is
\* not in the store and is resolved is returned and marked.
C13_NoIdSkipped ==
    /\ [](NoId \notin Ids(processed_alerts) /\ NoId \notin Ids(disk.data))
    /\ []((pc = "save_open" /\ entries # <<>>) => idx = Len(entries) + 1)
    /\ [][(pc = "entries" /\ idx' = idx + 1) =>
            LET id == entries[idx].id
            IN /\ pc' = IF idx < Len(entries) THEN "entries" ELSE "save_open"
               /\ id = NoId =>
                    (processed_alerts' = processed_alerts /\ new_alerts' = new_alerts)
               /\ (id # NoId /\ id \notin Ids(processed_alerts)
                   /\ (feedKind = "json" \/ alert_data' = "ok")) =>
                    /\ Len(new_alerts') = Len(new_alerts) + 1
                    /\ new_alerts'[Len(new_alerts')].id = id
                    /\ id \in Ids(processed_alerts')]_vars

\* an XML poll has gone through a feed whose first entry has no ID and has
\* returned a later entry
C13_Witness ==
    /\ pc = "save_open"
    /\ feedKind = "xml"
    /\ Len(entries) = 3
    /\ entries[1].id = NoId
    /\ new_alerts # <<>>

\* C14: a cycle starts only from main's start or from the loop, with nothing
\* of an earlier cycle left; while a cycle runs, the only steps are its own
\* (or the end of the process); the cleanup job runs only from the loop.
C14_NoOverlap ==
    [][/\ pc' = "load" =>
            /\ pc \in {"start", "loop"}
            /\ processed_alerts = {} /\ entries = <<>> /\ idx = 1
            /\ new_alerts = <<>> /\ ridx = 1 /\ attempts = <<>>
       /\ pc = "load" => pc' \in {"fetch", "stopped", "crashed"}
       /\ pc = "fetch" => pc' \in {"entries", "save_open", "stopped", "crashed"}
       /\ pc = "entries" => pc' \in {"entries", "save_open", "stopped", "crashed"}
       /\ pc = "save_open" => pc' \in {"save_dump", "stopped", "crashed"}
       /\ pc = "save_dump" => pc' \in {"render", "cycle_end", "stopped", "crashed"}
       /\ pc = "render" => pc' \in {"render", "cycle_end", "stopped", "crashed"}
       /\ (outputDir' # outputDir /\ pc # "render") =>
            (pc = "loop" /\ pc' = "sleep" /\ outputDir' \subseteq outputDir
             /\ new_alerts = <<>> /\ entries = <<>>)
      ]_vars

\* a scheduled cycle starts after an earlier cycle has persisted its marks
\* and written an artifact
C14_Witness ==
    /\ pc = "load"
    /\ caller = "job"
    /\ disk.state = "valid"
    /\ disk.data # {}
    /\ outputDir # {}

\* C15: the store holds one record per ID; a step of a poll keeps every
\* record of the store as it is and marks only an ID that is not in the store;
\* load takes the records from the file as they are and the persist writes
\* them back as they are; a poll returns an ID at most once.
C15_FirstMarkWins ==
    /\ [](\A r1, r2 \in processed_alerts : r1.id = r2.id => r1 = r2)
    /\ [](\A i, j \in 1..Len(new_alerts) : new_alerts[i].id = new_alerts[j].id => i = j)
    /\ [][/\ (pc \in {"fetch", "entries", "save_open", "save_dump", "render"}
              /\ pc' \in {"entries", "save_open", "save_dump", "render", "cycle_end"}) =>
                /\ processed_alerts \subseteq processed_alerts'
                /\ \A r \in processed_alerts' \ processed_alerts :
                     r.id \notin Ids(processed_alerts) /\ r.processed_at = now
          /\ (pc = "load" /\ pc' = "fetch") => processed_alerts' \subseteq disk.data
          /\ (pc = "save_dump" /\ pc' \in {"render", "cycle_end"}) =>
                disk'.data = processed_alerts
         ]_vars

\* a later poll has gone through a feed that carries twice an ID marked by
\* an earlier poll
C15_Witness ==
    /\ pc = "save_open"
    /\ Len(entries) = 3
    /\ entries[2].id = entries[3].id
    /\ \E r \in processed_alerts : r.id = entries[2].id /\ r.processed_at < now

\* C16: the feed request of every poll carries the identifying User-Agent
\* header, on the JSON path and on the XML path.
C16_UserAgentSent ==
    [][(pc = "fetch" /\ pc' \in {"entries", "save_open"}) =>
         <<"User-Agent", UserAgent>> \in RequestHeaders(feedKind)]_vars

C28_CounterRange ==
    /\ [](pc \in {"loop", "sleep"} =>
            (consecutive_errors >= 0 /\ consecutive_errors < max_consecutive_errors))
    /\ [][/\ (pc = "sleep" /\ pc' = "loop" /\ streak' = 0) => consecutive_errors' = 0
          /\ (justReset' /\ ~justReset) => (pc' = "loop" /\ consecutive_errors' = 0)
         ]_vars

\* an iteration starts after four failed iterations in a row
C28_Witness ==
    /\ pc = "loop"
    /\ consecutive_errors = max_consecutive_errors - 1

C30_NoHorizon ==
    /\ []((pc \in {"fetch", "entries", "save_open"} /\ disk.state = "valid") =>
            \A r \in disk.data :
                ~Parsable(r.processed_at) =>
                    (r \in processed_alerts /\ r.id \notin MarkedInPoll))
    /\ [][/\ (pc = "load" /\ pc' = "fetch" /\ disk.state = "valid") =>
               \A r \in disk.data : ~Parsable(r.processed_at) => r \in processed_alerts'
          /\ (pc \in {"fetch", "entries", "save_open", "save_dump"} /\ pc' \in Running) =>
               \A r \in processed_alerts :
                   ~Parsable(r.processed_at) => r \in processed_alerts'
          /\ (pc = "save_dump" /\ pc' \in {"render", "cycle_end"}) =>
               \A r \in processed_alerts : ~Parsable(r.processed_at) => r \in disk'.data
         ]_vars

\* 36 hours after the start, a poll of a feed that still serves the alert of
\* the unparsable record has gone through all entries without marking it,
\* while marking another alert
C30_Witness ==
    /\ pc = "save_open"
    /\ now >= TTL_HOURS + ClockStep
    /\ disk.state = "valid"
    /\ LegacyRecord \in disk.data
    /\ LegacyRecord \in processed_alerts
    /\ LegacyRecord.id \in {feed[i].id : i \in 1..Len(feed)}
    /\ entries # <<>>
    /\ MarkedInPoll # {}
    /\ LegacyRecord.id \notin MarkedInPoll

\* C26: with a rendering backend that may never return, and the process
\* never starved, every cycle that has started eventually finishes.
C26_CycleFinishes == (pc = "load") ~> (pc = "cycle_end")

\* the vertices of the warning that have two numbers, as [lon, lat]
C22_Vertices == {warning.polygon[i] : i \in {j \in 1..Len(warning.polygon) :
                                               Len(warning.polygon[j]) >= 2}}

\* C22: once the map is composed, the bounds are [[minLat - 0.1, minLon -
\* 0.1], [maxLat + 0.1, maxLon + 0.1]] over the vertices given as [lon, lat];
\* vertices spanning latitudes 35.0..36.0 and longitudes -88.0..-87.0 give
\* [[34.9, -88.1], [36.1, -86.9]]; every vertex is strictly inside.
C22_Bounds ==
    (pc = "return" /\ C22_Vertices # {}) =>
        LET lats == {v[2] : v \in C22_Vertices}
            lons == {v[1] : v \in C22_Vertices}
        IN /\ bounds = << <<MinOf(lats) - 1, MinOf(lons) - 1>>,
                          <<MaxOf(lats) + 1, MaxOf(lons) + 1>> >>
           /\ (MinOf(lats) = 350 /\ MaxOf(lats) = 360
               /\ MinOf(lons) = -880 /\ MaxOf(lons) = -870) =>
                 bounds = << <<349, -881>>, <<361, -869>> >>
           /\ \A v \in C22_Vertices :
                /\ bounds[1][1] < v[2] /\ v[2] < bounds[2][1]
                /\ bounds[1][2] < v[1] /\ v[1] < bounds[2][2]

\* the bounds of a polygon whose vertices span latitudes 35.0..36.0 and
\* longitudes -88.0..-87.0 have been computed
C22_Witness ==
    /\ pc = "return"
    /\ {v[2] : v \in C22_Vertices} = {350, 360}
    /\ {v[1] : v \in C22_Vertices} = {-880, -870}
    /\ bounds = << <<349, -881>>, <<361, -869>> >>

\* C23: the area text of an alert built by the Normalizer from a feature
\* whose areaDesc is empty or missing (and whose zones gave no name) is the
\* one the headline, description and placeholder tiers give.
C23_FallsThrough ==
    (pc = "return" /\ (~feature.has_areaDesc \/ feature.areaDesc = "")
     /\ warning.areaDesc = "") =>
        affected_areas = extract_affected_areas([warning EXCEPT !.has_areaDesc = FALSE])

\* the text of the first "HAZARD..." section of the description, up to the
\* end of its line
C24_Section ==
    LET d == warning.description
        i == Find("hazard...", lower(d))
        e == FindFrom("\n", d, i + 9)
    IN Slice(d, i + 9, IF e < 0 THEN Len(d) ELSE e)

\* C24: when the description has a labeled "HAZARD..." section with a text
\* of at most 250 characters, the summary is the text of that section.
C24_LabeledSection ==
    (pc = "return" /\ Contains("hazard...", lower(warning.description))
     /\ StripWs(C24_Section) # "" /\ Len(C24_Section) <= HazardsLimit) =>
        hazards = StripWs(C24_Section)

\* the positions of the entry elements of the document in a set of namespaces
C25_In(nss) == {i \in 1..Len(feed.elems) : feed.elems[i] \in nss}

\* the positions in the candidate list
C25_Found == {entries[k] : k \in 1..Len(entries)}

====
